---- MODULE Spec2Model ----
(***************************************************************************)
(* A model of the laser/pose occupancy-map script (src/作业2.py).          *)
(*                                                                         *)
(* Three components are modelled, each with its own specification:         *)
(*   SpecGrid    GridMap.__init__ and GridMap.vote                         *)
(*   SpecAlign   filter_data                                               *)
(*   SpecDecode  read_lms_data and LMSDATBUF.cal_world_position as main()  *)
(*               uses them: one stream                                     *)
(*   SpecStreams the same two, called by a caller that decodes several     *)
(*               streams                                                   *)
(* Spec is their union.                                                    *)
(*                                                                         *)
(* Numbers.  Python floats are modelled by exact rationals, on inputs for  *)
(* which the float computation and the exact one agree:                    *)
(*  - world coordinates are multiples of 1/Scale (Scale a power of two, so *)
(*    the coordinate, x - left and the bounds are exact doubles); dividing *)
(*    such a value by the double 0.1 yields a double whose floor and ceil  *)
(*    are those of the exact quotient 10*v (the quotient is either an      *)
(*    exact multiple of 5, which the division rounds to, or at least       *)
(*    1/Scale away from every integer);                                    *)
(*  - header floats are multiples of 1/HScale decoded from their IEEE-754  *)
(*    binary32 bytes.                                                      *)
(***************************************************************************)
EXTENDS Integers, Sequences, FiniteSets, TLC

VARIABLES
    \* ---- GridMap ----
    ps,          \* self.ps: the point cloud, a list of <<x, y>> in 1/Scale units
    left,        \* self.left
    bottom,      \* self.bottom
    width,       \* self.width
    height,      \* self.height
    map,         \* self.map: map[i][j], i in 0..width-1, j in 0..height-1
    voted,       \* self.voted: list of <<x, y>> corners in LengthNum/LengthDen units
    gpc,         \* "new" | "constructed" | "voted" | "error" | "idle"
    gerr,        \* the exception that ended the GridMap run, or "none"
    \* ---- filter_data ----
    lms_data,    \* argument lms_data: list of frames [milli, idx]
    nav_data,    \* argument nav_data: list of poses [milli, idx]
    startTimestamp, \* the cutoff the operator of the run asks for
    f_lms,       \* local lms_data after line 195
    f_nav,       \* local nav_data after line 196
    ret,         \* the returned pair of lists
    apc,         \* "call" | "done" | "idle"
    aerr,        \* the exception that ended filter_data, or "none"
    \* ---- read_lms_data / cal_world_position ----
    urg,         \* the bytes of the file read by the latest call
    BytesHeader,     \* Bytes.header   (class attribute), <<>> while unset
    BytesLmsdatbuf,  \* Bytes.lmsdatbuf (class attribute), <<>> while unset
    DATLEN,      \* local DATLEN of the latest call, <<>> while not computed
    Unit,        \* LMSDATBUF.Unit   (class attribute), <<>> while unset
    AngRes,      \* LMSDATBUF.AngRes (class attribute), <<>> while unset
    lms_out,     \* the list returned by the latest call
    kept,        \* a list returned by an earlier call that the caller still holds
    receiver,    \* the frame the latest operation was called on, if it was
                 \* cal_world_position: <<>> or <<frame>>
    world_p,     \* what that call returned
    dpc,         \* the latest operation: "ready" (none yet) | "read" | "held" |
                 \* "projected"; "idle" when the decoder is not in use
    derr         \* the exception that ended the latest operation, or "none"

gridVars  == <<ps, left, bottom, width, height, map, voted, gpc, gerr>>
alignVars == <<lms_data, nav_data, startTimestamp, f_lms, f_nav, ret, apc, aerr>>
decVars   == <<urg, BytesHeader, BytesLmsdatbuf, DATLEN, Unit, AngRes, lms_out,
               kept, receiver, world_p, dpc, derr>>
vars == <<gridVars, alignVars, decVars>>

(***************************************************************************)
(* Arithmetic helpers (math.floor, math.ceil, min, max).                   *)
(***************************************************************************)
\* math.floor(a / b) for integers a and b > 0
Floor(a, b) == a \div b

\* math.ceil(a / b) for integers a and b > 0
Ceil(a, b) == -((-a) \div b)

Min(S) == CHOOSE m \in S : \A n \in S : m <= n

Max(S) == CHOOSE m \in S : \A n \in S : m >= n

\* a sequence of n copies of e
Rep(e, n) == [k \in 1..n |-> e]

(***************************************************************************)
(* GridMap                                                                 *)
(***************************************************************************)
\* world coordinates are integers in units of 1/Scale
Scale == 2^4

\* GridMap.length = 0.1 = LengthNum / LengthDen
LengthNum == 1
LengthDen == 10

\* GridMap.threshold
threshold == 16

\* the coordinates and run lengths the point clouds are built from
MaxRuns == 2
XCoords == {-1, 0, 1, Scale}
YCoords == {0, 1, Scale}
RunLens == {1, threshold - 1}
Points == XCoords \X YCoords

RECURSIVE CloudsOf(_)
CloudsOf(n) ==
    IF n = 0 THEN {<<>>}
    ELSE LET prev == CloudsOf(n - 1)
         IN  prev \cup {c \o Rep(p, len) : c \in prev, p \in Points, len \in RunLens}

Clouds == CloudsOf(MaxRuns)

\* self.xs, self.ys = zip(*self.ps)
xs(cloud) == {cloud[k][1] : k \in DOMAIN cloud}
ys(cloud) == {cloud[k][2] : k \in DOMAIN cloud}

\* math.floor(min(...)), math.ceil(max(...)) of coordinates in 1/Scale units
BoundLow(S) == Floor(Min(S), Scale)
BoundHigh(S) == Ceil(Max(S), Scale)

\* math.ceil((hi - lo) / self.length)
GridSize(lo, hi) == Ceil((hi - lo) * LengthDen, LengthNum)

\* math.floor((x - lo) / self.length), x in 1/Scale units
CellIndex(x, lo) == Floor((x - lo * Scale) * LengthDen, Scale * LengthNum)

\* lo + i * self.length, in units of 1/LengthDen
CellCorner(lo, i) == lo * LengthDen + i * LengthNum

\* Python list indexing: index k of a list of length n is valid iff -n <= k < n,
\* a negative index counting from the end
ValidIndex(k, n) == -n <= k /\ k < n
NormIndex(k, n) == IF k < 0 THEN k + n ELSE k

\* [[0] * self.height for _ in range(self.width)]
ZeroMap(w, h) == [i \in 0..(w - 1) |-> [j \in 0..(h - 1) |-> 0]]

\* the loop of lines 92-97 from position k on: the map, and whether an
\* IndexError ended it
RECURSIVE VoteLoop(_, _, _, _, _, _, _)
VoteLoop(cloud, k, m, lo, bo, w, h) ==
    IF k > Len(cloud) THEN [map |-> m, err |-> "none"]
    ELSE LET i == CellIndex(cloud[k][1], lo)
             j == CellIndex(cloud[k][2], bo)
         IN  IF ~ValidIndex(i, w) \/ ~ValidIndex(j, h)
             THEN [map |-> m, err |-> "IndexError"]
             ELSE LET ii == NormIndex(i, w)
                      jj == NormIndex(j, h)
                  IN  VoteLoop(cloud, k + 1,
                               [m EXCEPT ![ii][jj] = @ + 1], lo, bo, w, h)

PassesStrict(count) == count > threshold

\* self.map[i][j] >= self.threshold
Passes(count) == count >= threshold

\* the inner loop of lines 102-107 for row i from column j on: what it appends
RECURSIVE EmitRow(_, _, _, _, _, _)
EmitRow(m, i, j, lo, bo, h) ==
    IF j >= h THEN <<>>
    ELSE (IF Passes(m[i][j])
          THEN <<(<<CellCorner(lo, i), CellCorner(bo, j)>>)>>
          ELSE <<>>) \o EmitRow(m, i, j + 1, lo, bo, h)

\* the outer loop of lines 101-107 from row i on: what it appends
RECURSIVE EmitLoop(_, _, _, _, _, _)
EmitLoop(m, i, lo, bo, w, h) ==
    IF i >= w THEN <<>>
    ELSE EmitRow(m, i, 0, lo, bo, h) \o EmitLoop(m, i + 1, lo, bo, w, h)

InitGridVars ==
    /\ ps \in Clouds
    /\ left = 0 /\ bottom = 0 /\ width = 0 /\ height = 0
    /\ map = <<>> /\ voted = <<>>
    /\ gpc = "new" /\ gerr = "none"

IdleGridVars ==
    /\ ps = <<>>
    /\ left = 0 /\ bottom = 0 /\ width = 0 /\ height = 0
    /\ map = <<>> /\ voted = <<>>
    /\ gpc = "idle" /\ gerr = "none"

\* GridMap.__init__: zip(*[]) yields nothing to unpack into xs, ys
GridMapInit ==
    /\ gpc = "new"
    /\ IF ps = <<>>
       THEN /\ gpc' = "error"
            /\ gerr' = "ValueError"
            /\ UNCHANGED <<left, bottom, width, height>>
       ELSE /\ left' = BoundLow(xs(ps))
            /\ bottom' = BoundLow(ys(ps))
            /\ width' = GridSize(BoundLow(xs(ps)), BoundHigh(xs(ps)))
            /\ height' = GridSize(BoundLow(ys(ps)), BoundHigh(ys(ps)))
            /\ gpc' = "constructed"
            /\ gerr' = "none"
    /\ UNCHANGED <<ps, map, voted>>
    /\ UNCHANGED <<alignVars, decVars>>

\* GridMap.vote
vote ==
    /\ gpc = "constructed"
    /\ LET r == VoteLoop(ps, 1, ZeroMap(width, height), left, bottom, width, height)
       IN  /\ map' = r.map
           /\ gerr' = r.err
           /\ IF r.err = "none"
              THEN /\ voted' = EmitLoop(r.map, 0, left, bottom, width, height)
                   /\ gpc' = "voted"
              ELSE /\ voted' = voted
                   /\ gpc' = "error"
    /\ UNCHANGED <<ps, left, bottom, width, height>>
    /\ UNCHANGED <<alignVars, decVars>>

NextGrid == GridMapInit \/ vote

(***************************************************************************)
(* filter_data                                                             *)
(***************************************************************************)
\* start_milli, the literal of line 192
start_milli == 71439698

\* timestamps run from start_milli - 1 to start_milli + TimeSpan; lists hold
\* at most MaxLen elements
TimeSpan == 1
MaxLen == 3
Times == (start_milli - 1)..(start_milli + TimeSpan)

\* the cutoffs an operator may ask for
Cutoffs == {start_milli, start_milli + 1}

\* a list of timestamped objects; idx is the object's identity (its position
\* in the list it was created in)
Stamped(ts) == [k \in DOMAIN ts |-> [milli |-> ts[k], idx |-> k]]

StampedLists == UNION {{Stamped(ts) : ts \in [1..n -> Times]} : n \in 0..MaxLen}

KeepLmsStrictEnd(x, end_milli) == start_milli <= x.milli /\ x.milli < end_milli

\* lambda x: start_milli <= x.milli <= end_milli
KeepLms(x, end_milli) == start_milli <= x.milli /\ x.milli <= end_milli

\* lambda x: x.milli >= start_milli
KeepNav(x) == x.milli >= start_milli

\* list(filter(<KeepLms>, lms_data)) from position k on
RECURSIVE FilterLms(_, _, _)
FilterLms(seq, k, end_milli) ==
    IF k > Len(seq) THEN <<>>
    ELSE IF KeepLms(seq[k], end_milli)
         THEN <<seq[k]>> \o FilterLms(seq, k + 1, end_milli)
         ELSE FilterLms(seq, k + 1, end_milli)

\* list(filter(<KeepNav>, nav_data)) from position k on
RECURSIVE FilterNav(_, _)
FilterNav(seq, k) ==
    IF k > Len(seq) THEN <<>>
    ELSE IF KeepNav(seq[k])
         THEN <<seq[k]>> \o FilterNav(seq, k + 1)
         ELSE FilterNav(seq, k + 1)

AllZipEqualFirstOnly(a, b, k) ==
    k > Len(a) \/ k > Len(b) \/ a[k].milli = b[k].milli

\* all(lms.milli == nav.milli for lms, nav in zip(a, b)) from position k on
RECURSIVE AllZipEqual(_, _, _)
AllZipEqual(a, b, k) ==
    IF k > Len(a) \/ k > Len(b) THEN TRUE
    ELSE a[k].milli = b[k].milli /\ AllZipEqual(a, b, k + 1)

InitAlignVars ==
    /\ lms_data \in StampedLists
    /\ nav_data \in StampedLists
    /\ startTimestamp \in Cutoffs
    /\ f_lms = <<>> /\ f_nav = <<>> /\ ret = <<>>
    /\ apc = "call" /\ aerr = "none"

IdleAlignVars ==
    /\ lms_data = <<>> /\ nav_data = <<>>
    /\ startTimestamp = start_milli
    /\ f_lms = <<>> /\ f_nav = <<>> /\ ret = <<>>
    /\ apc = "idle" /\ aerr = "none"

\* filter_data(lms_data, nav_data); nav_data[-1] of an empty list is an IndexError
filter_data ==
    /\ apc = "call"
    /\ apc' = "done"
    /\ IF nav_data = <<>>
       THEN /\ aerr' = "IndexError"
            /\ UNCHANGED <<f_lms, f_nav, ret>>
       ELSE LET end_milli == nav_data[Len(nav_data)].milli
                fl == FilterLms(lms_data, 1, end_milli)
                fn == FilterNav(nav_data, 1)
            IN  /\ f_lms' = fl
                /\ f_nav' = fn
                /\ IF Len(fl) # Len(fn)
                   THEN aerr' = "AssertionError" /\ ret' = ret
                   ELSE IF ~AllZipEqual(fl, fn, 1)
                   THEN aerr' = "AssertionError" /\ ret' = ret
                   ELSE aerr' = "none" /\ ret' = <<fl, fn>>
    /\ UNCHANGED <<lms_data, nav_data, startTimestamp>>
    /\ UNCHANGED <<gridVars, decVars>>

NextAlign == filter_data

(***************************************************************************)
(* read_lms_data and LMSDATBUF.cal_world_position                          *)
(*                                                                         *)
(* A class attribute or local that may be unset is a sequence: <<>> while  *)
(* unset, <<v>> once assigned.  Header floats are integers in units of     *)
(* 1/HScale; an angle in radians is a rational multiple of pi,             *)
(* [piNum, piDen].  A frame is [milli, dat, hdr]: hdr is a history field,  *)
(* the geometry derived from the header of the stream it was decoded from. *)
(***************************************************************************)
HScale == 2^2

\* Bytes.float, Bytes.long, Bytes.unsigned_short, len_header
BytesFloat == 4
BytesLong == 4
BytesUnsignedShort == 2
len_header == 3

\* IEEE-754 binary32 words, little-endian, of the header values used
W_0 == <<0, 0, 0, 0>>           \*   0.0
W_05 == <<0, 0, 0, 63>>         \*   0.5
W_1 == <<0, 0, 128, 63>>        \*   1.0
W_15 == <<0, 0, 192, 63>>       \*   1.5
W_100 == <<0, 0, 200, 66>>      \* 100.0
W_180 == <<0, 0, 52, 67>>       \* 180.0
W_m1 == <<0, 0, 128, 191>>      \*  -1.0
W_m2 == <<0, 0, 0, 192>>        \*  -2.0
W_m3 == <<0, 0, 64, 192>>       \*  -3.0
W_m4 == <<0, 0, 128, 192>>      \*  -4.0

\* the headers: AngRng, AngRes, Unit
Headers ==
    { W_1 \o W_1 \o W_1,        \* quotient 1
      W_0 \o W_1 \o W_100,      \* quotient 0
      W_15 \o W_1 \o W_1,       \* quotient 1.5
      W_180 \o W_05 \o W_100,   \* quotient 360
      W_m1 \o W_1 \o W_1,       \* quotient -1
      W_m2 \o W_1 \o W_1,       \* quotient -2
      W_m3 \o W_1 \o W_1,       \* quotient -3
      W_m4 \o W_1 \o W_1,       \* quotient -4
      W_1 \o W_0 \o W_1,        \* angular resolution 0
      W_1 \o W_05 \o W_0 }      \* quotient 2, unit 0

\* the bytes after the header: n bytes, byte k being (seed * k) mod 256
MaxBody == 13
Seeds == {1, 255}
Bodies == {[k \in 1..n |-> (s * k) % 256] : n \in 0..MaxBody, s \in Seeds}

\* the files: a header and a body, or a file cut inside its header
Buffers ==
    {h \o b : h \in Headers, b \in Bodies}
        \cup {<<>>, SubSeq(W_1 \o W_1 \o W_1, 1, 11)}

\* the files of a caller that decodes one stream after another: the
\* headers, each with the longest bodies
StreamBuffers == {h \o b : h \in Headers, b \in {c \in Bodies : Len(c) = MaxBody}}

\* the poses handed to cal_world_position: yaw, x, y
Navs == {[yaw |-> 0, x |-> 0, y |-> 0], [yaw |-> 1, x |-> 2, y |-> 3]}

\* s[a:b] for 0 <= a <= b
Slice(s, a, b) ==
    LET hi == IF b > Len(s) THEN Len(s) ELSE b
    IN  IF a >= hi THEN <<>> ELSE SubSeq(s, a + 1, hi)

\* a // b for integers, b # 0
PyFloorDiv(a, b) == IF b > 0 THEN a \div b ELSE (-a) \div (-b)

\* int(a / b) for integers, b # 0
PyInt(a, b) ==
    LET aa == IF a < 0 THEN -a ELSE a
        bb == IF b < 0 THEN -b ELSE b
        q == aa \div bb
    IN  IF (a < 0) = (b < 0) THEN q ELSE -q

\* struct '<f': the value, in 1/HScale units, of a binary32 word that is zero
\* or a normal number with a value that is a multiple of 1/HScale
F32(w) ==
    LET sign == w[4] \div 128
        exp == (w[4] % 128) * 2 + w[3] \div 128
        mant == (w[3] % 128) * 65536 + w[2] * 256 + w[1]
        mag == IF exp = 0 /\ mant = 0 THEN 0
               ELSE (8388608 + mant) \div (2^(150 - exp) \div HScale)
    IN  IF sign = 1 THEN -mag ELSE mag

\* struct '<l'
Int32LE(s, at) ==
    s[at + 1] + s[at + 2] * 256 + s[at + 3] * 65536
        + (IF s[at + 4] >= 128 THEN s[at + 4] - 256 ELSE s[at + 4]) * 16777216

\* struct '<H'
Uint16LE(s, at) == s[at + 1] + s[at + 2] * 256

\* int(AngRng / AngRes + 1)
PointCount(rng, res) == PyInt(rng + res, res)

\* Bytes.long + DATLEN * Bytes.unsigned_short
RecordSize(n) == BytesLong + n * BytesUnsignedShort

LoopStopWholeBuffer(len, rec) == len

\* len(urg_lmsdatbuf) // Bytes.lmsdatbuf * Bytes.lmsdatbuf
LoopStop(len, rec) == PyFloorDiv(len, rec) * rec

\* math.radians
Radians(deg) == [piNum |-> deg, piDen |-> 180 * HScale]

\* struct.unpack(f'<l{DATLEN}H', rec) and LMSDATBUF(milli, dat)
UnpackRecord(rec, n, hdr) ==
    [milli |-> Int32LE(rec, 0),
     dat |-> [k \in 1..n |-> Uint16LE(rec, BytesLong + (k - 1) * BytesUnsignedShort)],
     hdr |-> hdr]

\* the loop of lines 152-154 from offset i on: the frames appended to acc, and
\* the exception that ended it (struct.unpack raises struct.error on a
\* negative repeat count and on a buffer that is not of the format's size)
RECURSIVE DecodeLoop(_, _, _, _, _, _, _)
DecodeLoop(body, i, stop, rec, n, hdr, acc) ==
    IF (rec > 0 /\ i < stop) \/ (rec < 0 /\ i > stop)
    THEN IF n < 0 \/ Len(Slice(body, i, i + rec)) # RecordSize(n)
         THEN [frames |-> <<>>, err |-> "struct.error"]
         ELSE DecodeLoop(body, i + rec, stop, rec, n, hdr,
                         Append(acc, UnpackRecord(Slice(body, i, i + rec), n, hdr)))
    ELSE [frames |-> acc, err |-> "none"]

InitDecVars ==
    /\ urg = <<>>
    /\ BytesHeader = <<>> /\ BytesLmsdatbuf = <<>> /\ DATLEN = <<>>
    /\ Unit = <<>> /\ AngRes = <<>>
    /\ lms_out = <<>> /\ kept = <<>> /\ receiver = <<>>
    /\ world_p = <<>>
    /\ dpc = "ready" /\ derr = "none"

IdleDecVars ==
    /\ urg = <<>>
    /\ BytesHeader = <<>> /\ BytesLmsdatbuf = <<>> /\ DATLEN = <<>>
    /\ Unit = <<>> /\ AngRes = <<>>
    /\ lms_out = <<>> /\ kept = <<>> /\ receiver = <<>>
    /\ world_p = <<>>
    /\ dpc = "idle" /\ derr = "none"

\* read_lms_data on a file holding the bytes buf
read_lms_data(buf) ==
    /\ dpc # "idle"
    /\ dpc' = "read"
    /\ urg' = buf
    /\ world_p' = <<>>
    /\ receiver' = <<>>
    /\ kept' = kept
    /\ BytesHeader' = <<len_header * BytesFloat>>
    /\ LET hsize == len_header * BytesFloat
           urg_header == Slice(buf, 0, hsize)
           urg_lmsdatbuf == Slice(buf, hsize, Len(buf))
       IN  IF Len(urg_header) # hsize
           THEN /\ derr' = "struct.error"
                /\ DATLEN' = <<>> /\ lms_out' = <<>>
                /\ UNCHANGED <<BytesLmsdatbuf, Unit, AngRes>>
           ELSE
           LET rng == F32(SubSeq(urg_header, 1, 4))
               res == F32(SubSeq(urg_header, 5, 8))
               unit == F32(SubSeq(urg_header, 9, 12))
           IN  IF res = 0
               THEN /\ derr' = "ZeroDivisionError"
                    /\ DATLEN' = <<>> /\ lms_out' = <<>>
                    /\ UNCHANGED <<BytesLmsdatbuf, Unit, AngRes>>
               ELSE
               LET n == PointCount(rng, res)
                   rec == RecordSize(n)
                   hdr == [Unit |-> unit, AngRes |-> Radians(res)]
               IN  /\ DATLEN' = <<n>>
                   /\ BytesLmsdatbuf' = <<rec>>
                   /\ Unit' = <<unit>>
                   /\ AngRes' = <<Radians(res)>>
                   /\ IF rec = 0
                      THEN derr' = "ZeroDivisionError" /\ lms_out' = <<>>
                      ELSE LET r == DecodeLoop(urg_lmsdatbuf, 0,
                                               LoopStop(Len(urg_lmsdatbuf), rec),
                                               rec, n, hdr, <<>>)
                           IN  derr' = r.err /\ lms_out' = r.frames
    /\ UNCHANGED <<gridVars, alignVars>>

\* the caller stores a frame of the list it got in a variable of its own
Hold(k) ==
    /\ dpc # "idle"
    /\ k \in DOMAIN lms_out
    /\ kept' = <<lms_out[k]>>
    /\ dpc' = "held"
    /\ derr' = "none"
    /\ world_p' = <<>>
    /\ receiver' = <<>>
    /\ UNCHANGED <<urg, BytesHeader, BytesLmsdatbuf, DATLEN, Unit, AngRes, lms_out>>
    /\ UNCHANGED <<gridVars, alignVars>>

\* the unit and angular resolution a frame sees: self.Unit, self.AngRes are
\* looked up on the class, the instance having no such attribute
SeenUnit(self) == Unit[1]
SeenAngRes(self) == AngRes[1]

\* LMSDATBUF.cal_world_position(self, nav): point i is
\*   (nav.x + r cos a, nav.y + r sin a), r = dat[i] / Unit, a = yaw + i * AngRes,
\* kept as the terms it is computed from
WorldPoint(self, nav, i) ==
    [x |-> nav.x, y |-> nav.y,
     rNum |-> self.dat[i + 1], rDen |-> SeenUnit(self),
     yaw |-> nav.yaw, i |-> i, AngRes |-> SeenAngRes(self)]

cal_world_position(self, nav) ==
    /\ dpc # "idle"
    /\ dpc' = "projected"
    /\ receiver' = <<self>>
    /\ IF self.dat # <<>> /\ SeenUnit(self) = 0
       THEN /\ derr' = "ZeroDivisionError"
            /\ world_p' = <<>>
       ELSE /\ derr' = "none"
            /\ world_p' = [k \in 1..Len(self.dat) |-> WorldPoint(self, nav, k - 1)]
    /\ UNCHANGED <<urg, BytesHeader, BytesLmsdatbuf, DATLEN, Unit, AngRes, lms_out,
                   kept>>
    /\ UNCHANGED <<gridVars, alignVars>>

\* the frames the caller holds
HeldFrames == {lms_out[k] : k \in DOMAIN lms_out} \cup {kept[k] : k \in DOMAIN kept}

\* main(): one call of read_lms_data, then the projection of its frames
NextDecode ==
    \/ \E buf \in Buffers : dpc = "ready" /\ read_lms_data(buf)
    \/ \E self \in HeldFrames, nav \in Navs : cal_world_position(self, nav)

\* a caller of the module that decodes several streams, keeps frames and
\* projects them
NextStreams ==
    \/ \E buf \in StreamBuffers : read_lms_data(buf)
    \/ \E k \in 1..MaxBody : Hold(k)
    \/ \E self \in HeldFrames, nav \in Navs : cal_world_position(self, nav)

(***************************************************************************)
(* Specifications                                                          *)
(***************************************************************************)
InitGrid == InitGridVars /\ IdleAlignVars /\ IdleDecVars
InitAlign == IdleGridVars /\ InitAlignVars /\ IdleDecVars
InitDecode == IdleGridVars /\ IdleAlignVars /\ InitDecVars

SpecGrid == InitGrid /\ [][NextGrid]_vars
SpecAlign == InitAlign /\ [][NextAlign]_vars
SpecDecode == InitDecode /\ [][NextDecode]_vars
SpecStreams == InitDecode /\ [][NextStreams]_vars

Init == InitGrid \/ InitAlign \/ InitDecode
Next == NextGrid \/ NextAlign \/ NextDecode \/ NextStreams
Spec == Init /\ [][Next]_vars

(***************************************************************************)
(* Properties of GridMap (checked under SpecGrid)                          *)
(***************************************************************************)
\* the grid has been sized: __init__ returned
Constructed == gpc \in {"constructed", "voted"} \/ (gpc = "error" /\ gerr = "IndexError")

\* the point p lies in the cell (i, j):
\*   left + i L <= x < left + (i + 1) L and bottom + j L <= y < bottom + (j + 1) L
InCell(p, i, j) ==
    /\ (left * LengthDen + i * LengthNum) * Scale <= p[1] * LengthDen
    /\ p[1] * LengthDen < (left * LengthDen + (i + 1) * LengthNum) * Scale
    /\ (bottom * LengthDen + j * LengthNum) * Scale <= p[2] * LengthDen
    /\ p[2] * LengthDen < (bottom * LengthDen + (j + 1) * LengthNum) * Scale

\* the cells of the allocated grid
Cells == (0..(width - 1)) \X (0..(height - 1))

RECURSIVE SumSeq(_)
SumSeq(q) == IF q = <<>> THEN 0 ELSE Head(q) + SumSeq(Tail(q))

\* the sum of the counters of the grid
CounterSum == SumSeq([i \in 1..width |-> SumSeq([j \in 1..height |-> map[i - 1][j - 1]])])

\* C1: once a non-empty cloud's grid is sized, every point of the cloud lies in
\* a cell (i, j) with 0 <= i < width and 0 <= j < height, points on the right
\* and top bound included, and no increment of vote addresses a cell outside
\* the grid.
C1_IndicesInRange ==
    Constructed =>
        /\ \A k \in DOMAIN ps : \E c \in Cells : InCell(ps[k], c[1], c[2])
        /\ gerr # "IndexError"

\* C8: for every non-empty cloud the grid has width >= 1 and height >= 1.
C8_DimensionsAtLeastOne == Constructed => (width >= 1 /\ height >= 1)

Filtered == apc = "done" /\ aerr # "IndexError"

\* out holds exactly the elements of seq at the positions keep, in the order
\* of seq
Retains(seq, out, keep) ==
    /\ Len(out) = Cardinality(keep)
    /\ \A k \in DOMAIN out : out[k].idx \in keep /\ out[k] = seq[out[k].idx]
    /\ \A a, b \in DOMAIN out : a < b => out[a].idx < out[b].idx

\* filtering with the cutoff t retained exactly the frames with
\* t <= milli <= last pose's milli and the poses with milli >= t
RetainsByCutoff(t) ==
    /\ Retains(lms_data, f_lms,
               {k \in DOMAIN lms_data :
                    t <= lms_data[k].milli
                    /\ lms_data[k].milli <= nav_data[Len(nav_data)].milli})
    /\ Retains(nav_data, f_nav, {k \in DOMAIN nav_data : nav_data[k].milli >= t})

\* the retained lists do not align
Mismatch ==
    \/ Len(f_lms) # Len(f_nav)
    \/ \E k \in DOMAIN f_lms \cap DOMAIN f_nav : f_lms[k].milli # f_nav[k].milli

\* C2: filter_data ends in the assertion failure, returning nothing, exactly
\* when the retained lists differ in length or in the timestamp at some
\* position; otherwise it returns them, equal in timestamp position by position.
C2_AlignmentMismatch ==
    Filtered =>
        IF Mismatch
        THEN aerr = "AssertionError" /\ ret = <<>>
        ELSE /\ aerr = "none"
             /\ ret = <<f_lms, f_nav>>
             /\ \A k \in DOMAIN ret[1] : ret[1][k].milli = ret[2][k].milli

\* the assertion failed on lists of equal length that agree at position 1
C2_Witness ==
    /\ Filtered
    /\ aerr = "AssertionError"
    /\ Len(f_lms) = Len(f_nav)
    /\ Len(f_lms) >= 2
    /\ f_lms[1].milli = f_nav[1].milli

\* C3: when filter_data succeeds, the timestamps of the returned sequence are
\* strictly increasing (no duplicates, increasing order).
C3_StrictlyIncreasing ==
    (apc = "done" /\ aerr = "none") =>
        \A a, b \in DOMAIN ret[1] : a < b => ret[1][a].milli < ret[1][b].milli

Derived == dpc = "read" /\ DATLEN # <<>>

\* the header values of urg, in 1/HScale units
HdrAngRng == F32(SubSeq(urg, 1, 4))
HdrAngRes == F32(SubSeq(urg, 5, 8))

\* v is the 32-bit two's complement value of the 4 bytes of s after offset at
IsInt32Of(v, s, at) ==
    /\ -128 <= v \div 16777216 /\ v \div 16777216 <= 127
    /\ \A b \in 0..3 : (v \div (256^b)) % 256 = s[at + b + 1]

\* v is the unsigned 16-bit value of the 2 bytes of s after offset at
IsUint16Of(v, s, at) ==
    /\ 0 <= v /\ v < 65536
    /\ v % 256 = s[at + 1] /\ v \div 256 = s[at + 2]

\* C5: for a header with N >= 1, a buffer of m complete records of 4 + 2N
\* bytes and t < 4 + 2N trailing bytes decodes without error to exactly m
\* frames, frame f holding the timestamp and the N ranges of record f.
C5_TruncationTolerance ==
    (Derived /\ DATLEN[1] >= 1) =>
        LET N == DATLEN[1]
            size == 4 + 2 * N
            m == (Len(urg) - 12) \div size
        IN  /\ derr = "none"
            /\ Len(lms_out) = m
            /\ \A f \in 1..m :
                   /\ IsInt32Of(lms_out[f].milli, urg, 12 + (f - 1) * size)
                   /\ Len(lms_out[f].dat) = N
                   /\ \A k \in 1..N :
                          IsUint16Of(lms_out[f].dat[k], urg,
                                     12 + (f - 1) * size + 4 + 2 * (k - 1))

\* two complete records followed by a partial one were decoded
C5_Witness ==
    /\ Derived
    /\ DATLEN[1] >= 1
    /\ Len(lms_out) = 2
    /\ (Len(urg) - 12) % (4 + 2 * DATLEN[1]) > 0
    /\ lms_out[1].milli # lms_out[2].milli

\* C6: when the point count derived from the header is <= 0, read_lms_data
\* ends in an error and produces no frames.
C6_InvalidGeometry ==
    (Derived /\ DATLEN[1] <= 0) => (derr # "none" /\ lms_out = <<>>)

\* a / b rounded to the nearest integer, ties to even, for b > 0
RoundDiv(a, b) ==
    LET q == a \div b
        r == a % b
    IN  IF 2 * r < b THEN q
        ELSE IF 2 * r > b THEN q + 1
        ELSE IF q % 2 = 0 THEN q ELSE q + 1

\* C7: for a header with a positive quotient, the point count that sizes each
\* record is round(angularRange / angularResolutionDeg) + 1.
C7_PointCountIsRounded ==
    (Derived /\ HdrAngRng > 0 /\ HdrAngRes > 0) =>
        /\ DATLEN[1] = RoundDiv(HdrAngRng, HdrAngRes) + 1
        /\ BytesLmsdatbuf = <<4 + 2 * (RoundDiv(HdrAngRng, HdrAngRes) + 1)>>

(***************************************************************************)
(* Properties of cal_world_position (checked under SpecStreams)            *)
(***************************************************************************)
\* C10: every point of a projected frame is computed with the range unit and
\* the angular resolution derived from the header of the stream the frame was
\* decoded from.
C10_FrameSeesOwnGeometry ==
    dpc = "projected" =>
        \A k \in DOMAIN world_p :
            /\ world_p[k].rDen = receiver[1].hdr.Unit
            /\ world_p[k].AngRes = receiver[1].hdr.AngRes

====
